---- MODULE Spec2Model ----
(***************************************************************************)
(* A model of hbn_postprocessing: the four detectors of the package        *)
(* (count_all_files, check_html, check_jobs, exclude_by_motion) and the    *)
(* entry point main().  Each detector is one action that reads the input   *)
(* trees, which never change, and writes its CSV files into outDir.        *)
(*                                                                         *)
(* Encodings.  A cell that may be null (pandas NaN) is a sequence: <<>>    *)
(* for null and <<v>> for the value v.  A written CSV file is a record     *)
(* [header, rows]: header is the sequence of column names as written and   *)
(* each row maps a column name to its cell.  Text that the code slices or  *)
(* compares character by character is a sequence of one-character strings. *)
(* Real numbers are exact: a size in KB is kept in thousandths of a KB and *)
(* a mean is a fraction <<numerator, denominator>>.                        *)
(***************************************************************************)
EXTENDS Integers, Sequences, FiniteSets, TLC

VARIABLES
    bidsTree,      \* raw-data root: the listing of sub-* folders
    registry,      \* rows of participants.tsv
    htmlPages,     \* names of the files directly under the fmriprep root
    jobFiles,      \* the listing of the job-log directory
    fmriprepTree,  \* fmriprep root: the listing of sub* folders
    outDir,        \* output directory: file name -> <<>> or <<file>>
    status,        \* per detector: "none", "ok" or the exception raised
    subDicts,      \* the records count_files returned in the last call
    mainPc         \* position of main() of main.py

inputs == <<bidsTree, registry, htmlPages, jobFiles, fmriprepTree>>
vars == <<bidsTree, registry, htmlPages, jobFiles, fmriprepTree,
          outDir, status, subDicts, mainPc>>

----------------------------------------------------------------------------
(* Bounds of the model. *)

MaxLogs == 2
MaxSubjects == 2
MaxFiles == 1
MaxMotionSubjects == 5
MaxRegistry == 1
MaxHtmlRows == 2

----------------------------------------------------------------------------
(* Generic helpers. *)

None == <<>>
Some(v) == <<v>>

SeqsUpTo(S, n) == UNION {[1..k -> S] : k \in 0..n}

Range(s) == {s[i] : i \in 1..Len(s)}

Min2(a, b) == IF a < b THEN a ELSE b

MaxOf(S) == CHOOSE m \in S : \A x \in S : x <= m

RECURSIVE Concat(_)
(* "".join(chars): the string spelled by a sequence of characters. *)
Concat(chars) ==
    IF chars = <<>> THEN "" ELSE chars[1] \o Concat(Tail(chars))

(* Characters in code point order, as Python compares str values. *)
ASCII == <<" ", "-", ".", "0", "1", "2", "3", "4", "5", "6", "7", "8", "9",
           ":", "A", "B", "C", "D", "E", "F", "G", "H", "I", "J", "K", "L",
           "M", "N", "O", "P", "Q", "R", "S", "T", "U", "V", "W", "X", "Y",
           "Z", "_", "a", "b", "c", "d", "e", "f", "g", "h", "i", "j", "k",
           "l", "m", "n", "o", "p", "q", "r", "s", "t", "u", "v", "w", "x",
           "y", "z">>

Ord(c) == CHOOSE i \in 1..Len(ASCII) : ASCII[i] = c

RECURSIVE LexLess(_, _)
(* a < b for two str values, given as character sequences. *)
LexLess(a, b) ==
    IF b = <<>> THEN FALSE
    ELSE IF a = <<>> THEN TRUE
    ELSE IF a[1] # b[1] THEN Ord(a[1]) < Ord(b[1])
    ELSE LexLess(Tail(a), Tail(b))

LexMax(S) == CHOOSE m \in S : \A x \in S : x = m \/ LexLess(x, m)

LexMin(S) == CHOOSE m \in S : \A x \in S : x = m \/ LexLess(m, x)

RECURSIVE LexSorted(_)
(* The elements of a set of character sequences in ascending order. *)
LexSorted(S) ==
    IF S = {} THEN <<>>
    ELSE <<LexMin(S)>> \o LexSorted(S \ {LexMin(S)})

StartsWith(s, prefix) ==
    /\ Len(s) >= Len(prefix)
    /\ SubSeq(s, 1, Len(prefix)) = prefix

(* str.partition(sep)[2]: what follows the first occurrence of sep, or the
   empty string when sep does not occur. *)
PartitionAfter(s, sep) ==
    LET hits == {i \in 1..(Len(s) - Len(sep) + 1) :
                    SubSeq(s, i, i + Len(sep) - 1) = sep}
    IN  IF hits = {} THEN <<>>
        ELSE LET i == CHOOSE h \in hits : \A g \in hits : h <= g
             IN  SubSeq(s, i + Len(sep), Len(s))

(* s[0:n] *)
SliceTo(s, n) == SubSeq(s, 1, Min2(n, Len(s)))

(* DataFrame.to_csv: the index column first unless index=False. *)
ToCsv(indexName, cols, rows, withIndex) ==
    LET header == IF withIndex THEN <<indexName>> \o cols ELSE cols
    IN  [header |-> header,
         rows |-> [i \in 1..Len(rows) |->
                     [c \in Range(header) |-> rows[i][c]]]]

(* The values of a column of a written file, read back as a set. *)
ColumnSet(file, col) ==
    IF col \in Range(file.header)
    THEN {file.rows[i][col][1] : i \in 1..Len(file.rows)}
    ELSE {}

----------------------------------------------------------------------------
(* jobs.py *)

STARTED_THRESHOLD_KB == 10
COMPLETED_THRESHOLD_KB == 4000
BYTES_PER_KB == 1000
ID_LENGTH == 12

MARKER == <<"p", "a", "r", "t", "i", "c", "i", "p", "a", "n", "t", "_",
            "l", "a", "b", "e", "l", " ">>
SUB_PREFIX == <<"s", "u", "b", "-">>
NDA_PREFIX == <<"s", "u", "b", "-", "N", "D", "A">>

(* Log contents: two well-formed ones, one whose label carries the sub-
   prefix, one without the marker and one cut off inside the label. *)
LogPlainA == <<
    "x", " ", "p", "a", "r", "t", "i", "c", "i", "p", "a", "n", "t",
    "_", "l", "a", "b", "e", "l", " ", "N", "D", "A", "R", "A", "A",
    "0", "7", "5", "A", "M", "K", " ", "-", "w">>
LogPlainB == <<
    "x", " ", "p", "a", "r", "t", "i", "c", "i", "p", "a", "n", "t",
    "_", "l", "a", "b", "e", "l", " ", "N", "D", "A", "R", "B", "B",
    "1", "2", "3", "X", "Y", "Z", " ", "-", "w">>
LogPrefixed == <<
    "x", " ", "p", "a", "r", "t", "i", "c", "i", "p", "a", "n", "t",
    "_", "l", "a", "b", "e", "l", " ", "s", "u", "b", "-", "N", "D",
    "A", "A", "B", "1", "2", "3", "4", "C", "D", " ", "-", "w">>
LogNoMarker == <<
    "s", "l", "u", "r", "m", ":", " ", "e", "r", "r", "o", "r">>
LogTruncated == <<
    "x", " ", "p", "a", "r", "t", "i", "c", "i", "p", "a", "n", "t",
    "_", "l", "a", "b", "e", "l", " ", "N", "D", "A">>

LogContents == {LogPlainA, LogPlainB, LogPrefixed, LogNoMarker, LogTruncated}

(* st_size values: 5000 bytes and the bytes around the two thresholds. *)
LogSizes ==
    {5000} \cup
    {t * BYTES_PER_KB + d :
        t \in {STARTED_THRESHOLD_KB, COMPLETED_THRESHOLD_KB},
        d \in {0 - 1, 0, 1}}

(* The i-th file of the listing is named j<i>.out. *)
LogName(i) == <<"j", ASCII[4 + i], ".", "o", "u", "t">>

JobListings(n) ==
    {[i \in 1..Len(l) |->
        [name |-> LogName(i), content |-> l[i][1], st_size |-> l[i][2]]] :
     l \in SeqsUpTo(LogContents \X LogSizes, n)}

(* size_kb is st_size / 1000, kept in thousandths of a KB. *)
ProcessJobFile(file) ==
    [name |-> file.name,
     p_id |-> SliceTo(PartitionAfter(file.content, MARKER), ID_LENGTH),
     size_kb |-> file.st_size]

(* size_kb < threshold, with size_kb in thousandths. *)
KbLess(size_kb, threshold_kb) == size_kb < threshold_kb * BYTES_PER_KB

JobStatusAlt(size_kb) ==
    IF size_kb <= STARTED_THRESHOLD_KB * BYTES_PER_KB THEN "not started"
    ELSE IF size_kb <= COMPLETED_THRESHOLD_KB * BYTES_PER_KB
         THEN "partial/error"
         ELSE "likely complete"

JobStatus(size_kb) ==
    IF KbLess(size_kb, STARTED_THRESHOLD_KB) THEN "not started"
    ELSE IF KbLess(size_kb, COMPLETED_THRESHOLD_KB) THEN "partial/error"
         ELSE "likely complete"

(* size_df: one row per log, the rows with another prefix dropped. *)
SizeDf(listing) ==
    LET info == [i \in 1..Len(listing) |-> ProcessJobFile(listing[i])]
        rows == [i \in 1..Len(info) |->
                    [file_name |-> info[i].name,
                     participant_id |-> SUB_PREFIX \o info[i].p_id,
                     size_kb |-> info[i].size_kb]]
    IN  SelectSeq(rows, LAMBDA r : StartsWith(r.participant_id, NDA_PREFIX))

GroupMaxAlt(size_df) ==
    LET ids == LexSorted({r.participant_id : r \in Range(size_df)})
    IN  [i \in 1..Len(ids) |->
            LET grp == {r \in Range(size_df) : r.participant_id = ids[i]}
            IN  [participant_id |-> ids[i],
                 file_name |-> LexMax({r.file_name : r \in grp}),
                 size_kb |-> (CHOOSE r \in grp :
                                r.file_name = LexMax({q.file_name : q \in grp})
                             ).size_kb]]

(* groupby("participant_id").max(): keys ascending, each column's maximum. *)
GroupMax(size_df) ==
    LET ids == LexSorted({r.participant_id : r \in Range(size_df)})
    IN  [i \in 1..Len(ids) |->
            LET grp == {r \in Range(size_df) : r.participant_id = ids[i]}
            IN  [participant_id |-> ids[i],
                 file_name |-> LexMax({r.file_name : r \in grp}),
                 size_kb |-> MaxOf({r.size_kb : r \in grp})]]

(* One row of max_size, with the text columns as strings. *)
MaxSizeRow(g) ==
    [participant_id |-> Some(Concat(g.participant_id)),
     file_name |-> Some(Concat(g.file_name)),
     size_kb |-> Some(g.size_kb),
     status |-> Some(JobStatus(g.size_kb))]

(* max_size: the grouped frame with its status column. *)
MaxSize(listing) ==
    CHOOSE t \in {[i \in 1..Len(grouped) |-> MaxSizeRow(grouped[i])] :
                     grouped \in {GroupMax(SizeDf(listing))}} : TRUE

JobCols == <<"file_name", "size_kb", "status">>

JobsFiles == {"out-size_all.csv", "out-size_incomp.csv", "out-size_comp.csv"}

check_jobs ==
    \E max_size \in {MaxSize(jobFiles)} :
    \E incomp \in {SelectSeq(max_size,
                       LAMBDA r : r.status # Some("likely_complete"))} :
    \E comp \in {SelectSeq(max_size,
                     LAMBDA r : r.status = Some("likely complete"))} :
        /\ outDir' = [outDir EXCEPT
              !["out-size_all.csv"] =
                  Some(ToCsv("participant_id", JobCols, max_size, TRUE)),
              !["out-size_incomp.csv"] =
                  Some(ToCsv("participant_id", JobCols, incomp, TRUE)),
              !["out-size_comp.csv"] =
                  Some(ToCsv("participant_id", JobCols, comp, TRUE))]
        /\ status' = [status EXCEPT !["jobs"] = "ok"]
        /\ UNCHANGED <<inputs, subDicts, mainPc>>

----------------------------------------------------------------------------
(* file_count.py *)

(* DATATYPE_SPECS: datatype -> (img_type, glob).  The glob "*<text>*"
   matches the file names that contain <text>. *)
DATATYPE_SPECS ==
    [anat |-> [img_type |-> "t1", glob |-> "T1w.nii.gz"],
     func |-> [img_type |-> "func", glob |-> "bold.nii.gz"],
     fmap |-> [img_type |-> "fmap", glob |-> "fMRI_epi.nii.gz"]]

(* A file name is <stem>_<suffix>; of the names below a glob "*<text>*"
   matches exactly those whose suffix is <text>. *)
GlobMatches(file, glob) == file.suffix = glob

(* glob_dir(datatype_dir, glob) *)
GlobDir(files, glob) == SelectSeq(files, LAMBDA f : GlobMatches(f, glob))

(* A dict: its keys in insertion order and their values. *)
NewDict(k, v) == [keys |-> <<k>>, val |-> [x \in {k} |-> v]]

DictSet(d, k, v) ==
    [keys |-> IF k \in Range(d.keys) THEN d.keys ELSE Append(d.keys, k),
     val |-> [x \in Range(d.keys) \cup {k} |-> IF x = k THEN v ELSE d.val[x]]]

(* SearchSpec.count_files, merged into sub_dict by dict.update. *)
SearchSpecCountFiles(spec, sub_dict, files) ==
    LET found == GlobDir(files, spec.glob)
    IN  IF found # <<>>
        THEN DictSet(DictSet(sub_dict, spec.img_type, "yes"),
                     spec.img_type \o "_files", Len(found))
        ELSE DictSet(DictSet(sub_dict, spec.img_type, "no"),
                     spec.img_type \o "_files", 0)

(* The sub-folders of <bids_dir>/sub-<subj_id>, none if there is no such
   folder. *)
SubjectFolders(tree, subj_id) ==
    LET hits == {i \in 1..Len(tree) : tree[i].name = <<"sub", subj_id>>}
    IN  IF hits = {} THEN <<>> ELSE tree[CHOOSE i \in hits : TRUE].folders

RECURSIVE CountLoopAlt(_, _)
CountLoopAlt(content, sub_dict) ==
    IF content = <<>>
    THEN LET t1 == IF "t1" \in Range(sub_dict.keys) THEN sub_dict
                   ELSE DictSet(DictSet(sub_dict, "t1", "no"), "t1_files", 0)
         IN  t1
    ELSE LET datatype == content[1].name
         IN  IF datatype \notin DOMAIN DATATYPE_SPECS
             THEN CountLoopAlt(Tail(content), sub_dict)
             ELSE CountLoopAlt(Tail(content),
                      SearchSpecCountFiles(DATATYPE_SPECS[datatype],
                                           sub_dict, content[1].files))

RECURSIVE CountLoop(_, _)
(* The loop of count_files over the sub-folders. *)
CountLoop(content, sub_dict) ==
    IF content = <<>> THEN sub_dict
    ELSE LET datatype == content[1].name
         IN  IF datatype \notin DOMAIN DATATYPE_SPECS
             THEN CountLoop(Tail(content), sub_dict)
             ELSE CountLoop(Tail(content),
                      SearchSpecCountFiles(DATATYPE_SPECS[datatype],
                                           sub_dict, content[1].files))

count_files(tree, subj_id) ==
    CountLoop(SubjectFolders(tree, subj_id),
              NewDict("participant_id", "sub-" \o subj_id))

RECURSIVE FrameColumns(_, _)
(* The columns of DataFrame(list of dicts): keys in order of first
   appearance. *)
FrameColumns(dicts, cols) ==
    IF dicts = <<>> THEN cols
    ELSE FrameColumns(Tail(dicts),
             cols \o SelectSeq(dicts[1].keys,
                               LAMBDA k : k \notin Range(cols)))

(* The rows of DataFrame(list of dicts): a missing key is null. *)
FrameRows(dicts, cols) ==
    [i \in 1..Len(dicts) |->
        [c \in Range(cols) |->
            IF c \in Range(dicts[i].keys) THEN Some(dicts[i].val[c])
            ELSE None]]

PresenceFiles ==
    {"BIDS-count_all.csv", "BIDS-count_exclude.csv", "BIDS-count_include.csv"}

(* sub_dir.name.split("-")[1] for each sub-* folder, then count_files. *)
CountEachSubject(tree) ==
    [i \in 1..Len(tree) |-> count_files(tree, tree[i].name[2])]

(* (df["t1_files"] == 0) | (df["fmap_files"] == 0): null == 0 is False.
   Evaluated only when the frame has both columns. *)
IsExcluded(row) ==
    \/ row["t1_files"] = Some(0)
    \/ row["fmap_files"] = Some(0)

(* Each \E below ranges over a one-element set: it names a value the code
   computes once. *)
count_all_files ==
    \E dicts \in {CountEachSubject(bidsTree)} :
    \E cols \in {FrameColumns(dicts, <<>>)} :
    \E rows \in {FrameRows(dicts, cols)} :
    \E data \in {SelectSeq(cols, LAMBDA c : c # "participant_id")} :
        /\ subDicts' = dicts
        /\ IF "participant_id" \notin Range(cols)
           THEN \* astype({"participant_id": ...}) on a frame without columns
                /\ status' = [status EXCEPT !["presence"] = "KeyError"]
                /\ UNCHANGED outDir
           ELSE IF "t1_files" \notin Range(cols)
                   \/ "fmap_files" \notin Range(cols)
           THEN \* df["t1_files"] or df["fmap_files"], after the first write
                /\ status' = [status EXCEPT !["presence"] = "KeyError"]
                /\ outDir' = [outDir EXCEPT
                      !["BIDS-count_all.csv"] =
                          Some(ToCsv("participant_id", data, rows, TRUE))]
           ELSE \E exclude_df \in {SelectSeq(rows, IsExcluded)} :
                \E excluded \in
                      {{x["participant_id"] : x \in Range(exclude_df)}} :
                \E include_df \in
                      {SelectSeq(rows, LAMBDA r :
                                    r["participant_id"] \notin excluded)} :
                /\ status' = [status EXCEPT !["presence"] = "ok"]
                /\ outDir' = [outDir EXCEPT
                      !["BIDS-count_all.csv"] =
                          Some(ToCsv("participant_id", data, rows, TRUE)),
                      !["BIDS-count_exclude.csv"] =
                          Some(ToCsv("participant_id", data, exclude_df, TRUE)),
                      !["BIDS-count_include.csv"] =
                          Some(ToCsv("participant_id", data, include_df, TRUE))]
        /\ UNCHANGED <<inputs, mainPc>>

(* Raw-data trees: up to MaxSubjects folders sub-01, sub-02, ...; each has
   a dwi folder and any of anat, fmap (with a sidecar and up to MaxFiles
   images) and func (with one image), listed in name order. *)
SubjectLabels == <<"01", "02", "03", "04", "05", "06", "07">>

Images(n, suffix) == [k \in 1..n |-> [stem |-> "run-" \o ASCII[4 + k],
                                      suffix |-> suffix]]

Sidecar(suffix) == <<[stem |-> "run-1", suffix |-> suffix]>>

FolderChoices(name) ==
    IF name = "anat"
    THEN {<<>>} \cup {<<[name |-> "anat",
                        files |-> Images(n, "T1w.nii.gz") \o Sidecar("T1w.json")]>> :
                      n \in 0..MaxFiles}
    ELSE IF name = "fmap"
    THEN {<<>>} \cup {<<[name |-> "fmap",
                        files |-> Images(n, "fMRI_epi.nii.gz")
                                  \o Sidecar("fMRI_epi.json")]>> :
                      n \in 0..MaxFiles}
    ELSE IF name = "func"
    THEN {<<>>, <<[name |-> "func", files |-> Images(1, "bold.nii.gz")]>>}
    ELSE {<<[name |-> "dwi", files |-> Images(1, "dwi.nii.gz")]>>}

SubjectShapes ==
    {a \o d \o m \o f :
        a \in FolderChoices("anat"), d \in FolderChoices("dwi"),
        m \in FolderChoices("fmap"), f \in FolderChoices("func")}

BidsTrees(n) ==
    {[i \in 1..Len(shapes) |->
        [name |-> <<"sub", SubjectLabels[i]>>, folders |-> shapes[i]]] :
     shapes \in SeqsUpTo(SubjectShapes, n)}

----------------------------------------------------------------------------
(* motion.py *)

(* Exact fractions <<numerator, denominator>>, denominator positive. *)
Frac(n) == <<n, 1>>

FAdd(a, b) == <<a[1] * b[2] + b[1] * a[2], a[2] * b[2]>>

FScale(k, a) == <<k * a[1], a[2]>>

FDiv(a, k) == <<a[1], a[2] * k>>

FGreater(a, b) == a[1] * b[2] > b[1] * a[2]

FEqual(a, b) == a[1] * b[2] = b[1] * a[2]

RECURSIVE FSum(_)
FSum(fracs) ==
    IF fracs = <<>> THEN Frac(0) ELSE FAdd(fracs[1], FSum(Tail(fracs)))

(* Series.mean(): the mean of the non-null cells, null if there is none. *)
MeanSkipNull(cells) ==
    LET present == SelectSeq(cells, LAMBDA c : c # None)
    IN  IF present = <<>> THEN None
        ELSE Some(FDiv(FSum([i \in 1..Len(present) |-> present[i][1]]),
                       Len(present)))

(* A file name is the sequence of its parts; these are the parts that
   [a-zA-Z\d]+ and \d+ match. *)
AlnumTokens ==
    {"01", "02", "03", "04", "05", "06", "07", "1", "2",
     "rest", "movie", "confounds", "timeseries"}

DigitTokens == {"01", "02", "03", "04", "05", "06", "07", "1", "2"}

(* re.match(CONFOUNDS_PATTERN, name): null, or the groups task and run. *)
MatchConfounds(name) ==
    LET at(i) == IF i <= Len(name) THEN name[i] ELSE ""
        hasRun == at(5) = "_run-" /\ at(6) \in DigitTokens
        k == IF hasRun THEN 7 ELSE 5
    IN  IF /\ at(1) = "sub-"
           /\ at(2) \in AlnumTokens
           /\ at(3) = "_task-"
           /\ at(4) \in AlnumTokens
           /\ at(k) = "_desc-"
           /\ at(k + 1) \in AlnumTokens
           /\ at(k + 2) = "_"
           /\ at(k + 3) \in AlnumTokens
           /\ at(k + 4) = ".tsv"
        THEN Some([task |-> at(4), run |-> IF hasRun THEN Some(at(6)) ELSE None])
        ELSE None

(* task_run = f"{task}{run}" *)
TaskRun(groups) ==
    groups.task \o (IF groups.run # None THEN "_run-" \o groups.run[1] ELSE "")

(* data["framewise_displacement"].tail(-1).mean() *)
DisplacementMean(fd) == MeanSkipNull(Tail(fd))

RECURSIVE DisplacementLoopAlt(_, _)
DisplacementLoopAlt(tsvs, sub_dict) ==
    IF tsvs = <<>> THEN Some(sub_dict)
    ELSE IF MatchConfounds(tsvs[1].name) = None
    THEN DisplacementLoopAlt(Tail(tsvs), sub_dict)
    ELSE DisplacementLoopAlt(Tail(tsvs),
             DictSet(sub_dict, TaskRun(MatchConfounds(tsvs[1].name)[1]),
                     DisplacementMean(tsvs[1].fd)))

RECURSIVE DisplacementLoop(_, _)
(* The loop of get_framewise_displacement over the tables: <<record>>, or
   <<>> when a name the pattern does not match raises ValueError. *)
DisplacementLoop(tsvs, sub_dict) ==
    IF tsvs = <<>> THEN Some(sub_dict)
    ELSE IF MatchConfounds(tsvs[1].name) = None THEN None
    ELSE DisplacementLoop(Tail(tsvs),
             DictSet(sub_dict, TaskRun(MatchConfounds(tsvs[1].name)[1]),
                     DisplacementMean(tsvs[1].fd)))

get_framewise_displacement(subj_dir) ==
    DisplacementLoop(subj_dir.func, NewDict("id", Some(subj_dir.name)))

(* The rows of displacement_df: the cells are those of the records. *)
DisplacementRows(dicts, cols) ==
    [i \in 1..Len(dicts) |->
        [c \in Range(cols) |->
            IF c \in Range(dicts[i].keys) THEN dicts[i].val[c] ELSE None]]

(* displacement_df.iloc[:, 1:].mean(axis=0) *)
ColumnMeans(rows, tasks) ==
    [t \in Range(tasks) |->
        MeanSkipNull([i \in 1..Len(rows) |-> rows[i][t]])]

UpperLimsAlt(group_fds, group_sds) ==
    [t \in DOMAIN group_fds |->
        IF group_fds[t] = None THEN None
        ELSE Some(FAdd(group_fds[t][1], group_sds[t][1]))]

(* upper_lims = group_fds + (2 * group_sds) *)
UpperLims(group_fds, group_sds) ==
    [t \in DOMAIN group_fds |->
        IF group_fds[t] = None \/ group_sds[t] = None THEN None
        ELSE Some(FAdd(group_fds[t][1], FScale(2, group_sds[t][1])))]

(* displacement_df[task_run] > upper_lims[task_run]: a comparison with a
   null on either side is False. *)
IsOutlier(cell, upper) ==
    IF cell = None \/ upper = None THEN Some(FALSE)
    ELSE Some(FGreater(cell[1], upper[1]))

Orderings(S) ==
    {p \in [1..Cardinality(S) -> S] :
        \A i, j \in 1..Cardinality(S) : i # j => p[i] # p[j]}

MotionFiles == {"motion-outliers_all.csv"}

(* The flags table for one iteration order of the task columns. *)
OutlierTable(rows, cols, upper_lims, order) ==
    LET kept == SelectSeq(cols, LAMBDA c : c = "id")
        flags == [k \in 1..Len(order) |-> order[k] \o "_is_outlier"]
        header == kept \o flags
    IN  [header |-> header,
         rows |-> [i \in 1..Len(rows) |->
                     [c \in Range(header) |->
                         IF c = "id" THEN rows[i]["id"]
                         ELSE LET t == order[CHOOSE k \in 1..Len(order) :
                                                flags[k] = c]
                              IN  IsOutlier(rows[i][t], upper_lims[t])]]]

(* "for task_run in set(...)" visits the columns in the order of a set of
   str, which depends on the process's hash seed: any order. *)
exclude_by_motion ==
    \E results \in {[i \in 1..Len(fmriprepTree) |->
                       get_framewise_displacement(fmriprepTree[i])]} :
        /\ IF \E i \in 1..Len(results) : results[i] = None
           THEN /\ status' = [status EXCEPT !["motion"] = "ValueError"]
                /\ UNCHANGED outDir
           ELSE \E dicts \in {[i \in 1..Len(results) |-> results[i][1]]} :
                \E cols \in {FrameColumns(dicts, <<>>)} :
                \E rows \in {DisplacementRows(dicts, cols)} :
                \E tasks \in {SelectSeq(cols, LAMBDA c : c # "id")} :
                \E group_fds \in {ColumnMeans(rows, tasks)} :
                \E group_sds \in {ColumnMeans(rows, tasks)} :
                \E upper_lims \in {UpperLims(group_fds, group_sds)} :
                \E order \in Orderings(Range(tasks)) :
                /\ status' = [status EXCEPT !["motion"] = "ok"]
                /\ outDir' = [outDir EXCEPT
                      !["motion-outliers_all.csv"] =
                          Some(OutlierTable(rows, cols, upper_lims, order))]
        /\ UNCHANGED <<inputs, subDicts, mainPc>>

(* fmriprep trees: up to MaxMotionSubjects folders sub-01, sub-02, ...; a
   func folder holds no table, a rest table with mean 1 or with mean 10, a
   rest and a movie run-1 table, or a rest table and one with a session
   entity, which the pattern does not match. *)
ConfoundsName(label, entities) ==
    <<"sub-", label>> \o entities
        \o <<"_desc-", "confounds", "_", "timeseries", ".tsv">>

FdLow == <<Some(Frac(7)), Some(Frac(1)), Some(Frac(1))>>
FdHigh == <<None, Some(Frac(10)), Some(Frac(10))>>

FuncListings(label) ==
    LET rest(fd) == [name |-> ConfoundsName(label, <<"_task-", "rest">>),
                     fd |-> fd]
        movie == [name |-> ConfoundsName(label,
                               <<"_task-", "movie", "_run-", "1">>),
                  fd |-> FdLow]
        bad == [name |-> ConfoundsName(label,
                             <<"_ses-", "1", "_task-", "rest">>),
                fd |-> FdLow]
    IN  {<<>>, <<rest(FdLow)>>, <<rest(FdHigh)>>,
         <<movie, rest(FdLow)>>, <<rest(FdLow), bad>>}

RECURSIVE FmriprepTrees(_)
FmriprepTrees(n) ==
    IF n = 0 THEN {<<>>}
    ELSE FmriprepTrees(n - 1) \cup
         {Append(t, [name |-> "sub-" \o SubjectLabels[n], func |-> f]) :
             t \in {x \in FmriprepTrees(n - 1) : Len(x) = n - 1},
             f \in FuncListings(SubjectLabels[n])}

----------------------------------------------------------------------------
(* html.py *)

RECURSIVE JoinWith(_, _)
(* sep.join(parts) *)
JoinWith(parts, sep) ==
    IF parts = <<>> THEN ""
    ELSE IF Len(parts) = 1 THEN parts[1]
    ELSE parts[1] \o sep \o JoinWith(Tail(parts), sep)

(* pd.read_csv(path) of a tab-separated file: the separator is the comma,
   so each line is one field and the only column is named by the whole
   header line. *)
ReadCsv(file) ==
    [cols |-> <<JoinWith(file.header, "\t")>>,
     rows |-> [i \in 1..Len(file.rows) |->
                 [c \in {JoinWith(file.header, "\t")} |->
                     Some(JoinWith(file.rows[i], "\t"))]]]

(* A file name is <<stem, suffix>>; "*.html*" matches the names whose
   suffix is .html, and Path.stem drops the suffix. *)
HtmlStems(listing) == {f[1] : f \in {g \in listing : g[2] = ".html"}}

HtmlFiles == {"html-check_all.csv", "html-check_no.csv", "html-check_yes.csv"}

check_html ==
    \E html_files \in {HtmlStems(htmlPages)} :
    \E participants \in {ReadCsv(registry)} :
        /\ IF "participant_id" \notin Range(participants.cols)
           THEN \* astype({"participant_id": ...})
                /\ status' = [status EXCEPT !["html"] = "KeyError"]
                /\ UNCHANGED outDir
           ELSE \E matches \in
                   {[i \in 1..Len(participants.rows) |->
                       [c \in Range(participants.cols) \cup {"html"} |->
                           IF c = "html"
                           THEN IF participants.rows[i]["participant_id"][1]
                                       \in html_files
                                THEN Some("yes") ELSE Some("no")
                           ELSE participants.rows[i][c]]]} :
                \E data \in {SelectSeq(participants.cols,
                                 LAMBDA c : c # "participant_id")
                             \o <<"html">>} :
                /\ status' = [status EXCEPT !["html"] = "ok"]
                /\ outDir' = [outDir EXCEPT
                      !["html-check_all.csv"] =
                          Some(ToCsv("participant_id", data, matches, TRUE)),
                      !["html-check_no.csv"] =
                          Some(ToCsv("participant_id", data,
                                     SelectSeq(matches, LAMBDA r :
                                         r["html"] = Some("no")), TRUE)),
                      !["html-check_yes.csv"] =
                          Some(ToCsv("participant_id", data,
                                     SelectSeq(matches, LAMBDA r :
                                         r["html"] = Some("yes")), FALSE))]
        /\ UNCHANGED <<inputs, subDicts, mainPc>>

(* participants.tsv with one column or with a second one, and up to n
   rows. *)
Registries(n) ==
    {[header |-> <<"participant_id">>,
      rows |-> [i \in 1..Len(ids) |-> <<ids[i]>>]] :
        ids \in SeqsUpTo({"sub-01", "sub-02"}, n)}
    \cup
    {[header |-> <<"participant_id", "sex">>,
      rows |-> [i \in 1..Len(ids) |-> <<ids[i], "F">>]] :
        ids \in SeqsUpTo({"sub-01", "sub-02"}, n)}

PageListings ==
    {{<<"dataset_description", ".json">>},
     {<<"dataset_description", ".json">>, <<"sub-01", ".html">>}}

(* Listings of the fmriprep root for check_html alone: any of two pages
   and two files that are not pages. *)
HtmlListings ==
    SUBSET {<<"sub-01", ".html">>, <<"sub-02", ".html">>,
            <<"sub-02", ".json">>, <<"dataset_description", ".json">>}

----------------------------------------------------------------------------
(* main.py *)

(* main(): count_all_files is called with three positional arguments and
   takes two, so the call raises TypeError before its body runs. *)
main ==
    /\ mainPc = "start"
    /\ mainPc' = "TypeError"
    /\ UNCHANGED <<inputs, outDir, status, subDicts>>

----------------------------------------------------------------------------
(* The output directory and the specifications. *)

OutFiles == PresenceFiles \cup HtmlFiles \cup JobsFiles \cup MotionFiles

Detectors == {"presence", "html", "jobs", "motion"}

InitOutputs ==
    /\ outDir = [f \in OutFiles |-> None]
    /\ status = [d \in Detectors |-> "none"]
    /\ subDicts = <<>>
    /\ mainPc = "start"

NoRegistry == [header |-> <<"participant_id">>, rows |-> <<>>]

(* A whole run: every detector on small inputs, and main(). *)
Init ==
    /\ bidsTree \in {t \in BidsTrees(1) :
                        \A i \in 1..Len(t) :
                            \A k \in 1..Len(t[i].folders) :
                                t[i].folders[k].name # "func"}
    /\ registry \in Registries(MaxRegistry)
    /\ htmlPages \in PageListings
    /\ jobFiles \in {l \in JobListings(1) :
                        \A i \in 1..Len(l) :
                            /\ l[i].content \in {LogPlainA, LogNoMarker}
                            /\ l[i].st_size \in
                                   {5000, COMPLETED_THRESHOLD_KB * BYTES_PER_KB}}
    /\ fmriprepTree \in FmriprepTrees(1)
    /\ InitOutputs

Next ==
    \/ count_all_files
    \/ check_html
    \/ check_jobs
    \/ exclude_by_motion
    \/ main

Spec == Init /\ [][Next]_vars

InitJobs ==
    /\ bidsTree = <<>>
    /\ registry = NoRegistry
    /\ htmlPages = {}
    /\ fmriprepTree = <<>>
    /\ jobFiles \in JobListings(MaxLogs)
    /\ InitOutputs

NextJobs == check_jobs

SpecJobs == InitJobs /\ [][NextJobs]_vars

InitPresence ==
    /\ bidsTree \in BidsTrees(MaxSubjects)
    /\ registry = NoRegistry
    /\ htmlPages = {}
    /\ fmriprepTree = <<>>
    /\ jobFiles = <<>>
    /\ InitOutputs

NextPresence == count_all_files

SpecPresence == InitPresence /\ [][NextPresence]_vars

InitMotion ==
    /\ bidsTree = <<>>
    /\ registry = NoRegistry
    /\ htmlPages = {}
    /\ fmriprepTree \in FmriprepTrees(MaxMotionSubjects)
    /\ jobFiles = <<>>
    /\ InitOutputs

NextMotion == exclude_by_motion

SpecMotion == InitMotion /\ [][NextMotion]_vars

InitHtml ==
    /\ bidsTree = <<>>
    /\ registry \in Registries(MaxHtmlRows)
    /\ htmlPages \in HtmlListings
    /\ fmriprepTree = <<>>
    /\ jobFiles = <<>>
    /\ InitOutputs

NextHtml == check_html

SpecHtml == InitHtml /\ [][NextHtml]_vars

(* A run of the entry point alone, on the inputs of a whole run. *)
InitMain == Init

NextMain == main

SpecMain == InitMain /\ [][NextMain]_vars

----------------------------------------------------------------------------
(* Claims about check_jobs, checked under SpecJobs. *)

JobsTable == outDir["out-size_all.csv"][1]

JobsRan == status["jobs"] # "none"

(* C1: every row of the table check_jobs returns carries exactly the status
   its size calls for: below the started threshold "not started", from the
   started threshold up to but excluding the completed threshold
   "partial/error", from the completed threshold on "likely complete". *)
C1_BoundaryExact ==
    JobsRan =>
        \A i \in 1..Len(JobsTable.rows) :
            LET bytes == JobsTable.rows[i]["size_kb"][1]
                st == JobsTable.rows[i]["status"][1]
                started == STARTED_THRESHOLD_KB * BYTES_PER_KB
                completed == COMPLETED_THRESHOLD_KB * BYTES_PER_KB
            IN  /\ st \in {"not started", "partial/error", "likely complete"}
                /\ (st = "not started") <=> (bytes < started)
                /\ (st = "partial/error") <=>
                       (started <= bytes /\ bytes < completed)
                /\ (st = "likely complete") <=> (completed <= bytes)

(* C1 witness: one subject sits exactly on the started threshold and is
   "partial/error", another exactly on the completed threshold and is
   "likely complete". *)
C1_Witness ==
    /\ JobsRan
    /\ \E i, j \in 1..Len(JobsTable.rows) :
          /\ JobsTable.rows[i]["size_kb"][1] =
                 STARTED_THRESHOLD_KB * BYTES_PER_KB
          /\ JobsTable.rows[i]["status"][1] = "partial/error"
          /\ JobsTable.rows[j]["size_kb"][1] =
                 COMPLETED_THRESHOLD_KB * BYTES_PER_KB
          /\ JobsTable.rows[j]["status"][1] = "likely complete"

(* The id a log yields and whether the log is retained, read off the log. *)
LogId(file) == SUB_PREFIX \o ProcessJobFile(file).p_id

Retained(file) == StartsWith(LogId(file), NDA_PREFIX)

RetainedLogs == {i \in 1..Len(jobFiles) : Retained(jobFiles[i])}

(* C5: check_jobs raises no error; its table has one row per distinct
   subject id among the retained logs and no other row, and each row's size
   is the largest size among the retained logs of that subject. *)
C5_OneRowPerSubjectMaxSize ==
    JobsRan =>
        /\ status["jobs"] = "ok"
        /\ {JobsTable.rows[i]["participant_id"][1] :
                i \in 1..Len(JobsTable.rows)}
             = {Concat(LogId(jobFiles[k])) : k \in RetainedLogs}
        /\ Len(JobsTable.rows) =
               Cardinality({LogId(jobFiles[k]) : k \in RetainedLogs})
        /\ \A i \in 1..Len(JobsTable.rows) :
              LET mine == {k \in RetainedLogs :
                              Concat(LogId(jobFiles[k])) =
                                  JobsTable.rows[i]["participant_id"][1]}
              IN  /\ \E k \in mine :
                        jobFiles[k].st_size = JobsTable.rows[i]["size_kb"][1]
                  /\ \A k \in mine :
                        jobFiles[k].st_size <= JobsTable.rows[i]["size_kb"][1]

(* C5 witness: two logs of one subject, the first the larger, give one row
   with the first log's size. *)
C5_Witness ==
    /\ JobsRan
    /\ Len(jobFiles) = 2
    /\ RetainedLogs = {1, 2}
    /\ LogId(jobFiles[1]) = LogId(jobFiles[2])
    /\ jobFiles[1].st_size > jobFiles[2].st_size
    /\ Len(JobsTable.rows) = 1
    /\ JobsTable.rows[1]["size_kb"][1] = jobFiles[1].st_size

(* A log without the marker is dropped and the call still succeeds. *)
C5_DropWitness ==
    /\ JobsRan
    /\ Len(jobFiles) = 2
    /\ RetainedLogs = {2}
    /\ jobFiles[1].content = LogNoMarker
    /\ Len(JobsTable.rows) = 1

(* The 12 characters that follow the marker in a log. *)
AfterMarker(file) == SliceTo(PartitionAfter(file.content, MARKER), ID_LENGTH)

(* The logs of the scenario: the marker followed by sub-NDAAB1234CD. *)
PrefixedLogs == {k \in 1..Len(jobFiles) : jobFiles[k].content = LogPrefixed}

(* C11: a log whose content holds the marker followed by the prefixed id
   sub-NDAAB1234CD and whose size is 5000 bytes is retained by check_jobs:
   the table has a row whose id is the 12 characters that follow the marker,
   and that row's status is "not started". *)
C11_PrefixedLogRetained ==
    (/\ JobsRan
     /\ PrefixedLogs # {}
     /\ \A k \in PrefixedLogs : jobFiles[k].st_size = 5000)
    => \E i \in 1..Len(JobsTable.rows) :
          /\ \E k \in PrefixedLogs :
                JobsTable.rows[i]["participant_id"][1]
                    = Concat(AfterMarker(jobFiles[k]))
          /\ JobsTable.rows[i]["status"][1] = "not started"

(* What check_jobs does with that log: the 12 characters are sub-NDAAB123,
   the id built from them is sub-sub-NDAAB123, and no row of the table
   carries either. *)
C11_PrefixedLogDropped ==
    (JobsRan /\ PrefixedLogs # {}) =>
        /\ \A k \in PrefixedLogs :
              /\ Concat(AfterMarker(jobFiles[k])) = "sub-NDAAB123"
              /\ Concat(LogId(jobFiles[k])) = "sub-sub-NDAAB123"
              /\ ~Retained(jobFiles[k])
        /\ \A i \in 1..Len(JobsTable.rows) :
              JobsTable.rows[i]["participant_id"][1]
                  \notin {"sub-NDAAB123", "sub-sub-NDAAB123"}

----------------------------------------------------------------------------
(* Claims about count_files and count_all_files, checked under
   SpecPresence. *)

PresenceRan == status["presence"] # "none"

(* The sub-folders named datatype of the i-th subject folder. *)
FoldersNamed(i, datatype) ==
    {k \in 1..Len(bidsTree[i].folders) :
        bidsTree[i].folders[k].name = datatype}

(* The number of files of the i-th subject that the category's glob
   matches, counted on the tree; 0 when the folder is missing. *)
MatchCount(i, datatype) ==
    IF FoldersNamed(i, datatype) = {} THEN 0
    ELSE LET files ==
                 bidsTree[i].folders[CHOOSE k \in FoldersNamed(i, datatype) :
                                         TRUE].files
         IN  Cardinality({n \in 1..Len(files) :
                 files[n].suffix = DATATYPE_SPECS[datatype].glob})

(* C9: the record count_files returns for a subject holds, for each known
   category that has a sub-folder, the number of files its glob matches and
   the flag "yes" exactly when that number is positive, "no" when it is 0;
   it holds nothing for a category without a sub-folder and nothing for a
   sub-folder of another name. *)
C9_RecordPerFolder ==
    PresenceRan =>
        /\ Len(subDicts) = Len(bidsTree)
        /\ \A i \in 1..Len(bidsTree) :
              LET d == subDicts[i]
                  keys == Range(d.keys)
              IN  /\ d.val["participant_id"] =
                         "sub-" \o bidsTree[i].name[2]
                  /\ keys \subseteq
                         {"participant_id"} \cup
                         UNION {{DATATYPE_SPECS[c].img_type,
                                 DATATYPE_SPECS[c].img_type \o "_files"} :
                                c \in DOMAIN DATATYPE_SPECS}
                  /\ \A c \in DOMAIN DATATYPE_SPECS :
                        LET flag == DATATYPE_SPECS[c].img_type
                            count == flag \o "_files"
                        IN  IF FoldersNamed(i, c) # {}
                            THEN /\ flag \in keys
                                 /\ count \in keys
                                 /\ d.val[count] = MatchCount(i, c)
                                 /\ d.val[flag] =
                                        IF MatchCount(i, c) > 0 THEN "yes"
                                        ELSE "no"
                            ELSE flag \notin keys /\ count \notin keys

(* C9 witness: a subject with one T1w image under anat, one epi image under
   fmap, a dwi folder and no func folder yields exactly
   {t1: yes, t1_files: 1, fmap: yes, fmap_files: 1}. *)
C9_Witness ==
    /\ PresenceRan
    /\ Len(bidsTree) >= 1
    /\ FoldersNamed(1, "func") = {}
    /\ FoldersNamed(1, "dwi") # {}
    /\ MatchCount(1, "anat") = 1
    /\ MatchCount(1, "fmap") = 1
    /\ subDicts[1].keys =
           <<"participant_id", "t1", "t1_files", "fmap", "fmap_files">>
    /\ subDicts[1].val["t1"] = "yes"
    /\ subDicts[1].val["t1_files"] = 1
    /\ subDicts[1].val["fmap"] = "yes"
    /\ subDicts[1].val["fmap_files"] = 1

FileIds(name) == ColumnSet(outDir[name][1], "participant_id")

(* The subjects with no anatomical or no field-map image, read off the
   tree. *)
LackingMandatory ==
    {"sub-" \o bidsTree[i].name[2] :
        i \in {k \in 1..Len(bidsTree) :
                  MatchCount(k, "anat") = 0 \/ MatchCount(k, "fmap") = 0}}

AllSubjects == {"sub-" \o bidsTree[i].name[2] : i \in 1..Len(bidsTree)}

(* C10: count_all_files completes without error for every tree, and puts a
   subject in the exclude file exactly when the subject has no anatomical
   image or no field-map image, and in the include file otherwise. *)
C10_ExcludedExactly ==
    PresenceRan =>
        /\ status["presence"] = "ok"
        /\ outDir["BIDS-count_exclude.csv"] # None
        /\ outDir["BIDS-count_include.csv"] # None
        /\ FileIds("BIDS-count_exclude.csv") = LackingMandatory
        /\ FileIds("BIDS-count_include.csv") = AllSubjects \ LackingMandatory

(* The same statement for the calls that do complete: it fails on a subject
   without an anat folder next to one that has it. *)
C10_ExcludedExactlyWhenOk ==
    status["presence"] = "ok" =>
        /\ FileIds("BIDS-count_exclude.csv") = LackingMandatory
        /\ FileIds("BIDS-count_include.csv") = AllSubjects \ LackingMandatory

----------------------------------------------------------------------------
(* Claims about exclude_by_motion, checked under SpecMotion. *)

MotionRan == status["motion"] # "none"

MotionWritten == outDir["motion-outliers_all.csv"] # None

MotionTable == outDir["motion-outliers_all.csv"][1]

(* The tables of the i-th subject whose name gives the task key. *)
TablesOf(i, task_run) ==
    {k \in 1..Len(fmriprepTree[i].func) :
        LET m == MatchConfounds(fmriprepTree[i].func[k].name)
        IN  m # None /\ TaskRun(m[1]) = task_run}

(* The subject's mean displacement for the task: that of the last such
   table listed, null when there is none. *)
SubjectValue(i, task_run) ==
    IF TablesOf(i, task_run) = {} THEN None
    ELSE DisplacementMean(
             fmriprepTree[i].func[MaxOf(TablesOf(i, task_run))].fd)

HasValue(task_run) ==
    {i \in 1..Len(fmriprepTree) : SubjectValue(i, task_run) # None}

RECURSIVE SumOver(_, _)
(* The sum of the subjects' values for the task over a set of subjects. *)
SumOver(S, task_run) ==
    IF S = {} THEN Frac(0)
    ELSE LET i == CHOOSE x \in S : TRUE
         IN  FAdd(SubjectValue(i, task_run)[1], SumOver(S \ {i}, task_run))

(* group_mean over the subjects that have a value for the task. *)
GroupMean(task_run) ==
    FDiv(SumOver(HasValue(task_run), task_run),
         Cardinality(HasValue(task_run)))

TaskKeys == {"rest", "movie_run-1"}

(* C3: a subject that has a value for a task is flagged exactly when the
   value is strictly greater than group_mean + 2 * group_spread_proxy, the
   spread proxy being the code's group_sds, which is the group mean again;
   both are taken over the subjects that have a value for the task. *)
C3_OutlierRule ==
    MotionWritten =>
        \A i \in 1..Len(MotionTable.rows) :
            \A t \in TaskKeys :
                IF SubjectValue(i, t) # None
                THEN /\ (t \o "_is_outlier") \in Range(MotionTable.header)
                     /\ MotionTable.rows[i][t \o "_is_outlier"] =
                            Some(FGreater(SubjectValue(i, t)[1],
                                          FAdd(GroupMean(t),
                                               FScale(2, GroupMean(t)))))
                ELSE (t \o "_is_outlier") \in Range(MotionTable.header) =>
                         MotionTable.rows[i][t \o "_is_outlier"] # Some(TRUE)

(* C3 witness: the rest values of five subjects are 1, 1, 1, 1 and 10; the
   subject with 10 is flagged and the four others are not. *)
C3_Witness ==
    /\ MotionWritten
    /\ Len(fmriprepTree) = 5
    /\ HasValue("rest") = 1..5
    /\ \A i \in 1..4 : FEqual(SubjectValue(i, "rest")[1], Frac(1))
    /\ FEqual(SubjectValue(5, "rest")[1], Frac(10))
    /\ \A i \in 1..4 : MotionTable.rows[i]["rest_is_outlier"] = Some(FALSE)
    /\ MotionTable.rows[5]["rest_is_outlier"] = Some(TRUE)

(* C4: in the flags table a subject without a value for a task has a null
   in that task's is_outlier column. *)
C4_NullVerdict ==
    MotionWritten =>
        \A i \in 1..Len(MotionTable.rows) :
            \A t \in TaskKeys :
                (/\ (t \o "_is_outlier") \in Range(MotionTable.header)
                 /\ SubjectValue(i, t) = None)
                    => MotionTable.rows[i][t \o "_is_outlier"] = None

(* C7: a run that writes an output file again, on the unchanged input
   trees, writes what the file already held. *)
C7_Deterministic ==
    [][\A f \in DOMAIN outDir :
          (outDir[f] # None) => (outDir'[f] = outDir[f])]_vars

(* A table under some func folder has a name the pattern does not match. *)
MalformedPresent ==
    \E i \in 1..Len(fmriprepTree) :
        \E k \in 1..Len(fmriprepTree[i].func) :
            MatchConfounds(fmriprepTree[i].func[k].name) = None

(* C8: when some confound table has a name the pattern does not match,
   exclude_by_motion ends in ValueError and the motion-outliers file is not
   written. *)
C8_MalformedNameIsFatal ==
    (MotionRan /\ MalformedPresent) =>
        /\ status["motion"] = "ValueError"
        /\ ~MotionWritten

(* C8 witness: the second of two subjects has the malformed table, the
   first has a well-formed one, and the call ended in ValueError without
   writing. *)
C8_Witness ==
    /\ Len(fmriprepTree) = 2
    /\ SubjectValue(1, "rest") # None
    /\ MatchConfounds(fmriprepTree[1].func[1].name) # None
    /\ \E k \in 1..Len(fmriprepTree[2].func) :
          MatchConfounds(fmriprepTree[2].func[k].name) = None
    /\ status["motion"] = "ValueError"
    /\ ~MotionWritten

----------------------------------------------------------------------------
(* Claims about check_html, checked under SpecHtml. *)

HtmlRan == status["html"] # "none"

HtmlTable == outDir["html-check_all.csv"][1]

(* The flag the registry row i calls for: "yes" exactly when a page named
   <participant id>.html lies directly under the fmriprep root. *)
FlagOf(i) ==
    IF <<registry.rows[i][1], ".html">> \in htmlPages THEN "yes" ELSE "no"

(* The table check_html returns, as the registry and the listing call for
   it: one row per registry row, in registry order, every registry column
   kept, and the html flag. *)
HtmlTableAsRegistry ==
    /\ status["html"] = "ok"
    /\ HtmlTable.header = registry.header \o <<"html">>
    /\ Len(HtmlTable.rows) = Len(registry.rows)
    /\ \A i \in 1..Len(registry.rows) :
          /\ \A j \in 1..Len(registry.header) :
                HtmlTable.rows[i][registry.header[j]]
                    = Some(registry.rows[i][j])
          /\ HtmlTable.rows[i]["html"] = Some(FlagOf(i))
    /\ (registry.rows = <<>>) =>
          \A f \in HtmlFiles : outDir[f] # None /\ outDir[f][1].rows = <<>>

(* C12: check_html returns a table with exactly one row per registry row,
   in registry order and with the registry's extra columns preserved, whose
   html flag is "yes" exactly when a page file named after the row's
   participant id lies directly under the root and "no" otherwise; a
   registry without rows gives an empty table and empty breakdown files and
   no error. *)
C12_OneRowPerRegistryRow == HtmlRan => HtmlTableAsRegistry

(* What check_html does: on a registry whose only column is participant_id
   the table is as stated; on a registry with a second column the call
   raises KeyError and writes nothing. *)
C12_OneColumnOrKeyError ==
    HtmlRan =>
        IF Len(registry.header) = 1
        THEN HtmlTableAsRegistry
        ELSE /\ status["html"] = "KeyError"
             /\ \A f \in HtmlFiles : outDir[f] = None

----------------------------------------------------------------------------
(* Claims about a whole run, checked under Spec. *)

(* The three files of a breakdown, read as sets of participant ids, form a
   partition. *)
IsPartition(all, excl, incl) ==
    /\ FileIds(excl) \subseteq FileIds(all)
    /\ FileIds(incl) = FileIds(all) \ FileIds(excl)
    /\ FileIds(excl) \cap FileIds(incl) = {}

(* The subjects of the job-log table whose status is not "likely
   complete". *)
NotLikelyComplete ==
    {JobsTable.rows[i]["participant_id"][1] :
        i \in {k \in 1..Len(JobsTable.rows) :
                  JobsTable.rows[k]["status"][1] # "likely complete"}}

(* C2: for the presence, completion and job-log breakdowns the written
   files form a partition: the exclude-side ids are among the ids of the
   all file, the include-side ids are the all ids without the exclude-side
   ids, and no id is on both sides; the incomplete job-log file holds
   exactly the subjects whose status is not "likely complete". *)
C2_Partition ==
    /\ status["presence"] = "ok" =>
           IsPartition("BIDS-count_all.csv", "BIDS-count_exclude.csv",
                       "BIDS-count_include.csv")
    /\ status["html"] = "ok" =>
           IsPartition("html-check_all.csv", "html-check_no.csv",
                       "html-check_yes.csv")
    /\ status["jobs"] = "ok" =>
           /\ IsPartition("out-size_all.csv", "out-size_incomp.csv",
                          "out-size_comp.csv")
           /\ FileIds("out-size_incomp.csv") = NotLikelyComplete

(* The job-log part of C2 alone. *)
C2_JobsPartition ==
    status["jobs"] = "ok" =>
        /\ IsPartition("out-size_all.csv", "out-size_incomp.csv",
                       "out-size_comp.csv")
        /\ FileIds("out-size_incomp.csv") = NotLikelyComplete

(* The completion part of C2 alone. *)
C2_HtmlPartition ==
    status["html"] = "ok" =>
        IsPartition("html-check_all.csv", "html-check_no.csv",
                    "html-check_yes.csv")

(* The files that are none of the four detectors' own. *)
OverallFiles ==
    DOMAIN outDir \ (PresenceFiles \cup HtmlFiles \cup JobsFiles \cup MotionFiles)

(* The subject ids of the component tables that were written. *)
ComponentIds ==
    UNION {IF outDir[f] = None THEN {}
           ELSE ColumnSet(outDir[f][1], "participant_id")
                    \cup ColumnSet(outDir[f][1], "id") :
           f \in {"BIDS-count_all.csv", "html-check_all.csv",
                  "out-size_all.csv", "motion-outliers_all.csv"}}

(* main() has ended, or each detector has been run. *)
PipelineRan ==
    \/ mainPc # "start"
    \/ \A d \in Detectors : status[d] # "none"

(* C6: a pipeline run leaves one overall summary table, with one row for
   each subject id of the union of the four component tables. *)
C6_OverallOuterJoin ==
    PipelineRan =>
        \E f \in OverallFiles :
            /\ outDir[f] # None
            /\ Len(outDir[f][1].rows) = Cardinality(ComponentIds)
            /\ FileIds(f) = ComponentIds

----------------------------------------------------------------------------
(* Claims about main(), checked under SpecMain. *)

MainEnded == mainPc # "start"

StagesBeforeMotion == <<"presence", "html", "jobs">>

StageFiles(d) ==
    IF d = "presence" THEN PresenceFiles
    ELSE IF d = "html" THEN HtmlFiles
    ELSE IF d = "jobs" THEN JobsFiles
    ELSE MotionFiles

(* C13: main() invokes the detectors in the order presence, completion,
   job-log, motion, each stage writing its files before the next starts:
   once main() has ended the presence stage has been invoked, a later stage
   has been invoked only after the stages before it, every stage before
   the motion stage that completed has its files in the output directory,
   and when the motion stage failed the three earlier stages' files are
   there and the motion file is not. *)
C13_StagesWrittenBeforeMotion ==
    MainEnded =>
        /\ status["presence"] # "none"
        /\ \A k \in 2..Len(StagesBeforeMotion) :
              (status[StagesBeforeMotion[k]] # "none") =>
                  (status[StagesBeforeMotion[k - 1]] = "ok")
        /\ (status["motion"] # "none") => (status["jobs"] = "ok")
        /\ \A k \in 1..Len(StagesBeforeMotion) :
              (status[StagesBeforeMotion[k]] = "ok") =>
                  \A f \in StageFiles(StagesBeforeMotion[k]) :
                      outDir[f] # None
        /\ (status["motion"] \notin {"none", "ok"}) =>
              /\ \A k \in 1..Len(StagesBeforeMotion) :
                    \A f \in StageFiles(StagesBeforeMotion[k]) :
                        outDir[f] # None
              /\ \A f \in MotionFiles : outDir[f] = None

(* What main() does: it ends with TypeError at its first call, no detector
   has been invoked and the output directory holds no file. *)
C13_MainEndsAtFirstCall ==
    MainEnded =>
        /\ mainPc = "TypeError"
        /\ \A d \in Detectors : status[d] = "none"
        /\ \A f \in OutFiles : outDir[f] = None

====
